---- MODULE Spec2Model ----
(***************************************************************************)
(* Model of the greenai reconciliation pipeline: the attribution engine    *)
(* (backend/attribution_engine.py) and the review workflow                 *)
(* (bff/routers/workflow.py) over the shared relational store.             *)
(*                                                                         *)
(* Store semantics: PostgreSQL at its default isolation level READ         *)
(* COMMITTED (bff/database.py builds the engine without an isolation       *)
(* level).  A SELECT sees the committed rows; an UPDATE takes the row lock *)
(* and waits while another open transaction holds it; the writes of a      *)
(* transaction become visible together at COMMIT and vanish together when  *)
(* the session is closed without a commit.                                 *)
(*                                                                         *)
(* Numbers: float() and the arithmetic of predict and process_record are  *)
(* IEEE-754 doubles, kept as bit strings on a binary fixed-point grid; the *)
(* exact decimal value of a text (fixed point, Scale units per 1) is used  *)
(* only to state properties.  Confidence scores are kept in hundredths     *)
(* (0.85 is 85).  Left out: the comments column of audit_trail and the     *)
(* assigned_at timestamp (copied through, never read by the code).         *)
(***************************************************************************)
EXTENDS Integers, Sequences, FiniteSets, TLC

VARIABLES reason_codes, data_differences, attributions, audit_trail, req, eng,
          recon_runs, recon_records, ing, dif, record, diffs, pred, queue

\* the tables and processes of the batch side (run_ingestion and
\* run_difference_engine) and the argument and result of process_record
batch == <<recon_runs, recon_records, ing, dif>>
differ == <<record, diffs>>
\* the argument and result of a predict call, and of a get_review_queue call
calls == <<pred, queue>>

vars == <<reason_codes, data_differences, attributions, audit_trail, req, eng, batch, differ, calls>>

(***************************************************************************)
(* Bounds                                                                  *)
(***************************************************************************)
\* resolve calls made in a behaviour, engine processes, stored differences
NumRequests == 2
NumEngines == 1
NumDiffs == 2

Requests == 1..NumRequests
Engines == 1..NumEngines
\* every engine process inserts at most one attribution per difference; one
\* more id stands for the ids no attribution has
AttributionIds == 1..(NumDiffs * NumEngines + 1)

(***************************************************************************)
(* Optional integers: None is the empty set, Some(n) is {n}                *)
(***************************************************************************)
None == {}
Some(n) == {n}
The(s) == CHOOSE n \in s : TRUE

(***************************************************************************)
(* Text values are sequences of one-character strings; SQL NULL / Python   *)
(* None is the marker SqlNull.                                             *)
(***************************************************************************)
SqlNull == <<"NULL">>
Digits == {"0", "1", "2", "3", "4", "5", "6", "7", "8", "9"}
DigitVal(c) ==
  CASE c = "0" -> 0 [] c = "1" -> 1 [] c = "2" -> 2 [] c = "3" -> 3 [] c = "4" -> 4
    [] c = "5" -> 5 [] c = "6" -> 6 [] c = "7" -> 7 [] c = "8" -> 8 [] c = "9" -> 9

\* fixed-point unit: a parsed number n stands for n / Scale
Scale == 10000

RECURSIVE LStrip(_)
LStrip(s) == IF s # <<>> /\ Head(s) = " " THEN LStrip(Tail(s)) ELSE s

RECURSIVE RStrip(_)
RStrip(s) == IF s # <<>> /\ s[Len(s)] = " " THEN RStrip(SubSeq(s, 1, Len(s) - 1)) ELSE s

\* str.strip()
Strip(s) == RStrip(LStrip(s))

RECURSIVE RemoveChar(_, _)
\* str.replace(c, "")
RemoveChar(s, c) ==
  IF s = <<>> THEN <<>>
  ELSE IF Head(s) = c THEN RemoveChar(Tail(s), c)
  ELSE <<Head(s)>> \o RemoveChar(Tail(s), c)

RECURSIVE DigitsValue(_)
\* value of a digit string read as a natural number
DigitsValue(s) == IF s = <<>> THEN 0 ELSE DigitsValue(SubSeq(s, 1, Len(s) - 1)) * 10 + DigitVal(s[Len(s)])

RECURSIVE Pow10(_)
Pow10(n) == IF n = 0 THEN 1 ELSE 10 * Pow10(n - 1)

AllDigits(s) == \A i \in 1..Len(s) : s[i] \in Digits

DotPos(s) == IF \E i \in 1..Len(s) : s[i] = "." THEN CHOOSE i \in 1..Len(s) : s[i] = "." /\ \A j \in 1..(i - 1) : s[j] # "." ELSE 0

\* float(x) of a text value: surrounding blanks stripped, optional sign,
\* digits with at most one point and at least one digit.  The alphabet of
\* the model has no exponent, "inf", "nan" or "_" forms.
Unsigned(s) == IF s # <<>> /\ Head(s) \in {"-", "+"} THEN Tail(s) ELSE s
IntPart(s) == IF DotPos(s) = 0 THEN s ELSE SubSeq(s, 1, DotPos(s) - 1)
FracPart(s) == IF DotPos(s) = 0 THEN <<>> ELSE SubSeq(s, DotPos(s) + 1, Len(s))

CanFloat(v) ==
  /\ v # SqlNull
  /\ LET u == Unsigned(Strip(v))
     IN /\ AllDigits(IntPart(u))
        /\ AllDigits(FracPart(u))
        /\ Len(IntPart(u)) + Len(FracPart(u)) > 0
        /\ Pow10(Len(FracPart(u))) <= Scale

\* the parsed number in fixed point (Scale units per 1)
Float(v) ==
  LET t == Strip(v)
      u == Unsigned(t)
      m == DigitsValue(IntPart(u)) * Scale + DigitsValue(FracPart(u)) * (Scale \div Pow10(Len(FracPart(u))))
  IN IF t # <<>> /\ Head(t) = "-" THEN 0 - m ELSE m

Abs(x) == IF x < 0 THEN 0 - x ELSE x
Min(a, b) == IF a < b THEN a ELSE b

\* Python truthiness of an optional text value
Truthy(v) == v # SqlNull /\ v # <<>>

(***************************************************************************)
(* Binary floating point (the Python float, IEEE-754 binary64, round to    *)
(* nearest even) as the difference engine uses it.  A magnitude is a       *)
(* sequence of bits on a binary fixed-point grid, most significant first:  *)
(* IntBits bits before the point and FracBits after it.  Every double      *)
(* whose magnitude is 0 or in [2^(MantissaBits - 1 - FracBits), 2^IntBits) *)
(* lies on the grid, so parsing, subtraction and comparison are bit-exact  *)
(* there; the texts the model feeds in stay inside that range.             *)
(***************************************************************************)
IntBits == 14
FracBits == 67
MantissaBits == 53

\* the k low bits of the natural number n, most significant first
IntToBits(n, k) == [i \in 1..k |-> (n \div 2^(k - i)) % 2]

RECURSIVE Pow2Mod(_, _)
\* 2^k modulo d
Pow2Mod(k, d) ==
  IF k = 0 THEN 1 % d
  ELSE IF k % 2 = 1 THEN (2 * Pow2Mod(k - 1, d)) % d
  ELSE LET h == Pow2Mod(k \div 2, d) IN (h * h) % d

\* what is left of r / d (0 <= r < d) after its first k bits behind the
\* binary point: the remainder of the long division after k steps
FracRem(r, d, k) == (r * Pow2Mod(k, d)) % d

\* the first k bits of r / d after the binary point
FracToBits(r, d, k) == [i \in 1..k |-> (2 * FracRem(r, d, i - 1)) \div d]

\* position of the most significant 1, or 0
LeadingOne(bits) ==
  IF \E i \in DOMAIN bits : bits[i] = 1
    THEN CHOOSE i \in DOMAIN bits : bits[i] = 1 /\ \A j \in 1..(i - 1) : bits[j] = 0
    ELSE 0

\* bits plus one unit at position pos
AddBit(bits, pos) ==
  LET j == CHOOSE i \in 1..pos : bits[i] = 0 /\ \A k \in (i + 1)..pos : bits[k] = 1
  IN [i \in DOMAIN bits |-> IF i = j THEN 1 ELSE IF i > j /\ i <= pos THEN 0 ELSE bits[i]]

\* round an exact magnitude (sticky: it has 1 bits beyond the grid) to
\* MantissaBits significant bits, ties to even
RoundToDouble(bits, sticky) ==
  LET p == LeadingOne(bits)
      last == p + MantissaBits - 1
  IN IF p = 0 \/ last >= Len(bits) THEN bits
     ELSE LET kept == [i \in DOMAIN bits |-> IF i <= last THEN bits[i] ELSE 0]
              half == bits[last + 1] = 1
              rest == sticky \/ \E i \in (last + 2)..Len(bits) : bits[i] = 1
          IN IF half /\ (rest \/ bits[last] = 1) THEN AddBit(kept, last) ELSE kept

\* x - y for x >= y: position i borrows when, at the first position behind
\* it where x and y differ, x has the 0
SubBits(x, y) ==
  LET differing == {j \in DOMAIN x : x[j] # y[j]}
      borrow(i) == LET behind == {j \in differing : j > i}
                   IN IF behind = {} THEN 0
                      ELSE y[CHOOSE j \in behind : \A k \in behind : j <= k]
  IN [i \in DOMAIN x |-> (x[i] - y[i] - borrow(i) + 2) % 2]

\* x + y: position i receives a carry when, at the first position behind it
\* where x and y agree, both have the 1
AddBits(x, y) ==
  LET agreeing == {j \in DOMAIN x : x[j] = y[j]}
      carry(i) == LET behind == {j \in agreeing : j > i}
                  IN IF behind = {} THEN 0
                     ELSE x[CHOOSE j \in behind : \A k \in behind : j <= k]
  IN [i \in DOMAIN x |-> (x[i] + y[i] + carry(i)) % 2]

GtBits(x, y) == \E i \in DOMAIN x : x[i] > y[i] /\ \A j \in 1..(i - 1) : x[j] = y[j]

\* the double nearest to (ip + r / d), negated when neg
RatioToDouble(neg, ip, r, d) ==
  [neg |-> neg,
   bits |-> RoundToDouble(IntToBits(ip, IntBits) \o FracToBits(r, d, FracBits), FracRem(r, d, FracBits) # 0)]

\* float(x) of a text value x for which CanFloat(x)
ToDouble(v) ==
  LET t == Strip(v)
      u == Unsigned(t)
  IN RatioToDouble(t # <<>> /\ Head(t) = "-", DigitsValue(IntPart(u)), DigitsValue(FracPart(u)), Pow10(Len(FracPart(u))))

\* fa - fb
DoubleSub(fa, fb) ==
  IF fa.neg # fb.neg
    THEN [neg |-> fa.neg, bits |-> RoundToDouble(AddBits(fa.bits, fb.bits), FALSE)]
  ELSE IF GtBits(fb.bits, fa.bits)
    THEN [neg |-> ~fa.neg, bits |-> RoundToDouble(SubBits(fb.bits, fa.bits), FALSE)]
  ELSE [neg |-> fa.neg, bits |-> RoundToDouble(SubBits(fa.bits, fb.bits), FALSE)]

\* abs(f)
DoubleAbs(f) == [f EXCEPT !.neg = FALSE]

\* fa > fb
DoubleGt(fa, fb) ==
  IF fa.neg /\ fb.neg THEN GtBits(fb.bits, fa.bits)
  ELSE IF fa.neg THEN FALSE
  ELSE IF fb.neg THEN LeadingOne(fa.bits) # 0 \/ LeadingOne(fb.bits) # 0
  ELSE GtBits(fa.bits, fb.bits)

(***************************************************************************)
(* Division.  The quotient fa / fb is not kept: what the code does with it *)
(* is compare it with a literal c, and the correctly rounded quotient is   *)
(* above c exactly when the exact quotient is above the midpoint of c and  *)
(* the next double (or on it, when the tie rounds away from c), which is a *)
(* comparison of two exact products.  Products are computed on limbs of    *)
(* LimbBits bits, least significant limb first.                            *)
(***************************************************************************)
LimbBits == 9
NumLimbs == (IntBits + FracBits + LimbBits - 1) \div LimbBits

\* the limbs of a magnitude read as a multiple of the grid unit
ToLimbs(bits) ==
  [j \in 0..(NumLimbs - 1) |->
    LET BitAt(w) == IF w < Len(bits) THEN bits[Len(bits) - w] ELSE 0
        part[t \in 0..(LimbBits - 1)] ==
          BitAt(LimbBits * j + t) * 2^t + (IF t = 0 THEN 0 ELSE part[t - 1])
    IN part[LimbBits - 1]]

\* the sign (1, 0, -1) of w * x - y * z for limb sequences: the difference of
\* the columns of the two products (column k of w * x is the sum of the
\* w[i] * x[j] with i + j = k) accumulated from the most significant column
\* down.  The running difference saturates: beyond Saturation it keeps its
\* sign whatever the lower columns hold.
ProductsSign(w, x, y, z) ==
  LET Saturation == 2^(30 - LimbBits)
      Column(u, v, k) ==
        LET upto[i \in -1..(NumLimbs - 1)] ==
              IF i = -1 THEN 0
              ELSE upto[i - 1] + (IF (k - i) \in DOMAIN v THEN u[i] * v[k - i] ELSE 0)
        IN upto[NumLimbs - 1]
      acc[k \in 0..(2 * NumLimbs - 1)] ==
        LET raw == (IF k = 2 * NumLimbs - 1 THEN 0 ELSE acc[k + 1] * 2^LimbBits)
                     + Column(w, x, k) - Column(y, z, k)
        IN IF raw > Saturation THEN Saturation
           ELSE IF raw < 0 - Saturation THEN 0 - Saturation
           ELSE raw
      total == acc[0]
  IN IF total > 0 THEN 1 ELSE IF total < 0 THEN -1 ELSE 0

\* x / y compared with m, for magnitudes x, y, m with y > 0: "gt", "eq" or "lt"
QuotientVs(x, y, m) ==
  LET one == IntToBits(1, IntBits) \o [i \in 1..FracBits |-> 0]
      sign == ProductsSign(ToLimbs(x), ToLimbs(one), ToLimbs(m), ToLimbs(y))
  IN IF sign > 0 THEN "gt" ELSE IF sign < 0 THEN "lt" ELSE "eq"

\* position of the last mantissa bit of a non-zero double
LastBit(bits) == LeadingOne(bits) + MantissaBits - 1

\* fa / fb > c for doubles fa >= 0, fb > 0 and a positive double c
DivGt(fa, fb, c) ==
  LET mid == [c.bits EXCEPT ![LastBit(c.bits) + 1] = 1]
      side == QuotientVs(fa.bits, fb.bits, mid)
  IN side = "gt" \/ (side = "eq" /\ c.bits[LastBit(c.bits)] = 1)

\* fa / fb < c for doubles fa >= 0, fb > 0 and a positive double c; below a
\* power of two the doubles are spaced half as far apart as above it
DivLt(fa, fb, c) ==
  LET pow2 == \A i \in DOMAIN c.bits : c.bits[i] = 1 => i = LeadingOne(c.bits)
      pos == IF pow2 THEN LastBit(c.bits) + 2 ELSE LastBit(c.bits) + 1
      unit == [i \in DOMAIN c.bits |-> IF i = pos THEN 1 ELSE 0]
      mid == SubBits(c.bits, unit)
      side == QuotientVs(fa.bits, fb.bits, mid)
  IN side = "lt" \/ (side = "eq" /\ c.bits[LastBit(c.bits)] = 1)

(***************************************************************************)
(* Difference engine: the values of a normalized field map, is_numeric,    *)
(* compare_values and process_record                                       *)
(*                                                                         *)
(* A field value is None, a string, a JSON number (kept by its canonical   *)
(* literal, which is also its str()) or a bool.  Lists and dicts are       *)
(* outside the inputs of the model.                                        *)
(***************************************************************************)
PyNone == [kind |-> "none", text |-> <<>>, flag |-> FALSE]
PyStr(t) == [kind |-> "str", text |-> t, flag |-> FALSE]
PyNum(t) == [kind |-> "num", text |-> t, flag |-> FALSE]
PyBool(b) == [kind |-> "bool", text |-> <<>>, flag |-> b]

\* str(v)
Str(v) ==
  IF v.kind = "bool"
    THEN IF v.flag THEN <<"T", "r", "u", "e">> ELSE <<"F", "a", "l", "s", "e">>
    ELSE v.text

\* float(n) does not raise: TypeError for None, ValueError for a string that
\* is no number
is_numeric(n) ==
  CASE n.kind = "none" -> FALSE
    [] n.kind = "str" -> CanFloat(n.text)
    [] OTHER -> TRUE

\* float(v) for is_numeric(v)
PyFloat(v) ==
  IF v.kind = "bool" THEN RatioToDouble(FALSE, IF v.flag THEN 1 ELSE 0, 0, 1)
  ELSE ToDouble(v.text)

\* the literal 0.005
NUMERIC_TOLERANCE == RatioToDouble(FALSE, 0, 5, 1000)

\* str(val) if val is not None else None
StrOrNull(v) == IF v.kind = "none" THEN SqlNull ELSE Str(v)

\* the dict compare_values returns for a mismatch of this type
Mismatch(field, val_a, val_b, type) ==
  [field |-> field, val_a |-> StrOrNull(val_a), val_b |-> StrOrNull(val_b), type |-> type]

\* abs(fa - fb) > NUMERIC_TOLERANCE
NumericMismatch(val_a, val_b) ==
  DoubleGt(DoubleAbs(DoubleSub(PyFloat(val_a), PyFloat(val_b))), NUMERIC_TOLERANCE)

\* variant: the null checks come after the string comparison
compare_values_nulls_last(field, val_a, val_b) ==
  IF is_numeric(val_a) /\ is_numeric(val_b)
    THEN IF NumericMismatch(val_a, val_b)
           THEN Some(Mismatch(field, val_a, val_b, "NUMERIC_MISMATCH"))
           ELSE None
  ELSE IF Str(val_a) # Str(val_b) THEN Some(Mismatch(field, val_a, val_b, "STRING_MISMATCH"))
  ELSE IF val_a.kind = "none" /\ val_b.kind = "none" THEN None
  ELSE IF val_a.kind = "none" \/ val_b.kind = "none"
    THEN Some(Mismatch(field, val_a, val_b, "NULL_MISMATCH"))
  ELSE None

\* variant: the string comparison looks at the values, not at their str()
compare_values_typed(field, val_a, val_b) ==
  IF val_a.kind = "none" /\ val_b.kind = "none" THEN None
  ELSE IF val_a.kind = "none" \/ val_b.kind = "none"
    THEN Some(Mismatch(field, val_a, val_b, "NULL_MISMATCH"))
  ELSE IF is_numeric(val_a) /\ is_numeric(val_b)
    THEN IF NumericMismatch(val_a, val_b)
           THEN Some(Mismatch(field, val_a, val_b, "NUMERIC_MISMATCH"))
           ELSE None
  ELSE IF val_a # val_b THEN Some(Mismatch(field, val_a, val_b, "STRING_MISMATCH"))
  ELSE None

\* compare_values: None (no difference) or the difference dict
compare_values(field, val_a, val_b) ==
  IF val_a.kind = "none" /\ val_b.kind = "none" THEN None
  ELSE IF val_a.kind = "none" \/ val_b.kind = "none"
    THEN Some(Mismatch(field, val_a, val_b, "NULL_MISMATCH"))
  ELSE IF is_numeric(val_a) /\ is_numeric(val_b)
    THEN IF NumericMismatch(val_a, val_b)
           THEN Some(Mismatch(field, val_a, val_b, "NUMERIC_MISMATCH"))
           ELSE None
  ELSE IF Str(val_a) # Str(val_b) THEN Some(Mismatch(field, val_a, val_b, "STRING_MISMATCH"))
  ELSE None

\* dict.get(key)
DictGet(data, key) == IF key \in DOMAIN data THEN data[key] ELSE PyNone

\* the rows one pass of the loop body appends to diffs for key
FieldRows(rec, key) ==
  LET result == compare_values(key, DictGet(rec.normalized_data_a, key), DictGet(rec.normalized_data_b, key))
  IN IF result = None THEN <<>>
     ELSE <<[field_name |-> The(result).field, value_a |-> The(result).val_a,
             value_b |-> The(result).val_b, diff_type |-> The(result).type]>>

\* SCENARIO 1: the single row returned for a record missing on one side
MissingRow(side) ==
  IF side = "A"
    THEN [field_name |-> "ENTIRE_RECORD", value_a |-> SqlNull,
          value_b |-> <<"E", "X", "I", "S", "T", "S">>, diff_type |-> "MISSING_IN_SOURCE_A"]
    ELSE [field_name |-> "ENTIRE_RECORD", value_a |-> <<"E", "X", "I", "S", "T", "S">>,
          value_b |-> SqlNull, diff_type |-> "MISSING_IN_SOURCE_B"]

\* set(data_a.keys()).union(set(data_b.keys()))
AllKeys(rec) == DOMAIN rec.normalized_data_a \cup DOMAIN rec.normalized_data_b

RECURSIVE FieldLoop(_, _)
\* the for loop over all_keys when the set yields its keys in this order
FieldLoop(rec, order) ==
  IF order = <<>> THEN <<>> ELSE FieldRows(rec, Head(order)) \o FieldLoop(rec, Tail(order))

\* variant: the missing-record checks come after the field comparison
process_record_fields_first(rec, order) ==
  IF AllKeys(rec) # {} THEN FieldLoop(rec, order)
  ELSE IF ~Truthy(rec.source_a_ref_id) THEN <<MissingRow("A")>>
  ELSE IF ~Truthy(rec.source_b_ref_id) THEN <<MissingRow("B")>>
  ELSE <<>>

\* process_record(record), the set all_keys yielding its keys in this order
process_record(rec, order) ==
  IF ~Truthy(rec.source_a_ref_id) THEN <<MissingRow("A")>>
  ELSE IF ~Truthy(rec.source_b_ref_id) THEN <<MissingRow("B")>>
  ELSE FieldLoop(rec, order)

(***************************************************************************)
(* Attribution engine: AttributionModel.predict                            *)
(***************************************************************************)
CONFIDENCE_THRESHOLD == 85

\* dict.get(code): the id, or None
MapGet(reason_map, code) == IF code \in DOMAIN reason_map THEN Some(reason_map[code]) ELSE None

\* the numeric branch raised inside try (float() failed)
NumericRaises(d) ==
  \/ Truthy(d.value_a) /\ ~CanFloat(d.value_a)
  \/ Truthy(d.value_b) /\ ~CanFloat(d.value_b)

\* the literals 0.0, 0.02, 0.005 and 0.03
ZeroDouble == RatioToDouble(FALSE, 0, 0, 1)
ROUNDING_DELTA == RatioToDouble(FALSE, 0, 2, 100)
FX_BAND_LOW == RatioToDouble(FALSE, 0, 5, 1000)
FX_BAND_HIGH == RatioToDouble(FALSE, 0, 3, 100)

\* va = float(val_a) if val_a else 0.0, and vb; delta = abs(va - vb)
NumA(d) == IF Truthy(d.value_a) THEN ToDouble(d.value_a) ELSE ZeroDouble
NumB(d) == IF Truthy(d.value_b) THEN ToDouble(d.value_b) ELSE ZeroDouble
Delta(d) == DoubleAbs(DoubleSub(NumA(d), NumB(d)))

\* delta < 0.02
IsRounding(d) == DoubleGt(ROUNDING_DELTA, Delta(d))

\* pct_diff = delta / va if va != 0 else 0;  0.005 < pct_diff < 0.03.
\* With va below zero the quotient is not above zero.
IsFxBand(d) ==
  LET va == NumA(d)
  IN /\ LeadingOne(va.bits) # 0
     /\ ~va.neg
     /\ DivGt(Delta(d), va, FX_BAND_LOW)
     /\ DivLt(Delta(d), va, FX_BAND_HIGH)

NormalizeStr(v) == Strip(RemoveChar(RemoveChar(v, "."), ","))

\* rows recon.data_differences may hold: one the engine leaves UNKNOWN
\* (confidence 0.0), one scored 0.88, one scored 1.0, one numeric fallback
SampleDiffs ==
  { [diff_type |-> "STRING_MISMATCH", value_a |-> <<"A", "B">>, value_b |-> <<"A", "C">>],
    [diff_type |-> "NUMERIC_MISMATCH", value_a |-> <<"1", "0", "0", ".", "0", "0">>, value_b |-> <<"1", "0", "2", ".", "0", "0">>],
    [diff_type |-> "MISSING_IN_SOURCE_A", value_a |-> SqlNull, value_b |-> <<"E", "X", "I", "S", "T", "S">>],
    [diff_type |-> "NUMERIC_MISMATCH", value_a |-> <<"1", ".", "0">>, value_b |-> <<"5", ".", "0">>] }

\* rows recon.data_differences may hold, one or more for every rule of
\* predict
EngineDiffs ==
  SampleDiffs \cup
  { [diff_type |-> "MISSING_IN_SOURCE_B", value_a |-> <<"E", "X", "I", "S", "T", "S">>, value_b |-> SqlNull],
    [diff_type |-> "MISSING_IN_SOURCE_A", value_a |-> <<"1", ".", "0">>, value_b |-> <<"1", ".", "0">>],
    [diff_type |-> "TYPE_MISMATCH", value_a |-> <<"1">>, value_b |-> <<"x">>],
    [diff_type |-> "TYPE_MISMATCH", value_a |-> <<"1", "0", "0", ".", "0", "0">>, value_b |-> <<"1", "0", "0", ".", "0", "1">>],
    [diff_type |-> "NUMERIC_MISMATCH", value_a |-> <<"1", "0", "0", ".", "0", "0">>, value_b |-> <<"1", "0", "0", ".", "0", "1">>],
    [diff_type |-> "STRING_MISMATCH", value_a |-> <<"A", ",", " ", "I", ".">>, value_b |-> <<"A", " ", "I">>] }

\* the differences predict is called on by itself: every difference type
\* with every pair of these values
PredictInputs ==
  LET numbers ==
        { <<"1", "0", "0", ".", "0", "0">>, <<"1", "0", "0", ".", "0", "1">>, <<"1", "0", "0", ".", "0", "2">>,
          <<"1", "0", "0", ".", "5", "0">>, <<"1", "0", "2", ".", "0", "0">>, <<"1", "0", "3", ".", "0", "0">>,
          <<"-", "1", "0", "0", ".", "0", "0">>, <<"-", "1", "0", "2", ".", "0", "0">>,
          <<"0">>, <<"1", ".", "0">>, <<"1", ".", "0", "1">> }
      others ==
        { SqlNull, <<>>, <<"a", "b", "c">>, <<"A", ",", " ", "I", ".">>, <<"A", " ", "I">>,
          <<" ", "A", " ", "I", " ">>, <<".">> }
      types ==
        {"MISSING_IN_SOURCE_A", "MISSING_IN_SOURCE_B", "TYPE_MISMATCH", "NUMERIC_MISMATCH",
         "STRING_MISMATCH", "NULL_MISMATCH"}
  IN [diff_type : types, value_a : numbers \cup others, value_b : numbers \cup others]

\* variant: the handler of the numeric branch is "except ZeroDivisionError"
CaughtZeroDivisionOnly(exc) == exc = "ZeroDivisionError"

\* except Exception: every exception the body of try can raise is one
Caught(exc) == exc \in {"ValueError", "TypeError", "ZeroDivisionError", "OverflowError"}

\* the exception that leaves predict, or "none": only float() raises, inside
\* try
PredictRaises(d) ==
  IF d.diff_type = "NUMERIC_MISMATCH" /\ NumericRaises(d) /\ ~Caught("ValueError")
    THEN "ValueError"
    ELSE "none"

\* variant: the FX band is tried before the rounding threshold
RuleFxFirst(d) ==
  IF d.diff_type = "MISSING_IN_SOURCE_A" THEN <<"MISSING_SOURCE_A", 100>>
  ELSE IF d.diff_type = "MISSING_IN_SOURCE_B" THEN <<"MISSING_SOURCE_B", 100>>
  ELSE IF d.diff_type = "TYPE_MISMATCH" THEN <<"DATA_TYPE_MISMATCH", 100>>
  ELSE IF d.diff_type = "NUMERIC_MISMATCH" /\ ~NumericRaises(d) /\ IsFxBand(d)
    THEN <<"FX_VARIANCE", 88>>
  ELSE IF d.diff_type = "NUMERIC_MISMATCH" /\ ~NumericRaises(d) /\ IsRounding(d)
    THEN <<"ROUNDING_DIFF", 98>>
  ELSE IF /\ d.diff_type = "STRING_MISMATCH"
          /\ Truthy(d.value_a) /\ Truthy(d.value_b)
          /\ NormalizeStr(d.value_a) = NormalizeStr(d.value_b)
    THEN <<"MANUAL_ENTRY_ERR", 90>>
  ELSE <<"UNKNOWN", 0>>

\* the rule predict applies to d: the reason code it looks up in reason_map
\* and the confidence it returns with it
Rule(d) ==
  IF d.diff_type = "MISSING_IN_SOURCE_A" THEN <<"MISSING_SOURCE_A", 100>>
  ELSE IF d.diff_type = "MISSING_IN_SOURCE_B" THEN <<"MISSING_SOURCE_B", 100>>
  ELSE IF d.diff_type = "TYPE_MISMATCH" THEN <<"DATA_TYPE_MISMATCH", 100>>
  ELSE IF d.diff_type = "NUMERIC_MISMATCH" /\ ~NumericRaises(d) /\ IsRounding(d)
    THEN <<"ROUNDING_DIFF", 98>>
  ELSE IF d.diff_type = "NUMERIC_MISMATCH" /\ ~NumericRaises(d) /\ IsFxBand(d)
    THEN <<"FX_VARIANCE", 88>>
  ELSE IF /\ d.diff_type = "STRING_MISMATCH"
          /\ Truthy(d.value_a) /\ Truthy(d.value_b)
          /\ NormalizeStr(d.value_a) = NormalizeStr(d.value_b)
    THEN <<"MANUAL_ENTRY_ERR", 90>>
  ELSE <<"UNKNOWN", 0>>

\* predict reads nothing but the difference and reason_map: the rule of
\* every difference of the model, worked out once
Rules == [d \in SampleDiffs \cup EngineDiffs \cup PredictInputs |-> Rule(d)] @@ <<>>

\* variant: no rule for TYPE_MISMATCH, which falls through to UNKNOWN
PredictWithoutTypeRule(reason_map, d) ==
  IF d.diff_type = "TYPE_MISMATCH" THEN <<MapGet(reason_map, "UNKNOWN"), 0>>
  ELSE <<MapGet(reason_map, Rules[d][1]), Rules[d][2]>>

\* predict(diff_record): (reason_id, confidence_score)
Predict(reason_map, d) == <<MapGet(reason_map, Rules[d][1]), Rules[d][2]>>

\* variant: every new attribution is stored as ACCEPTED
InitialStatusAlwaysAccepted(confidence) == "ACCEPTED"

\* variant: the threshold is taken to be 0.90
InitialStatusThreshold90(confidence) == IF confidence >= 90 THEN "ACCEPTED" ELSE "UNKNOWN"

\* status = "ACCEPTED" if confidence >= CONFIDENCE_THRESHOLD else "UNKNOWN"
InitialStatus(confidence) == IF confidence >= CONFIDENCE_THRESHOLD THEN "ACCEPTED" ELSE "UNKNOWN"

\* one element of attributions_to_insert
NewAttribution(reason_map, diff_id, d) ==
  LET p == Predict(reason_map, d)
  IN [diff_id |-> diff_id,
      reason_id |-> p[1],
      confidence_score |-> p[2],
      status |-> InitialStatus(p[2]),
      assigned_by |-> "AI_ENGINE_V1"]

(***************************************************************************)
(* Reference data and inputs                                               *)
(***************************************************************************)
FullLookup ==
  [c \in {"MISSING_SOURCE_A", "MISSING_SOURCE_B", "ROUNDING_DIFF", "FX_VARIANCE",
          "MANUAL_ENTRY_ERR", "DATA_TYPE_MISMATCH", "UNKNOWN"} |->
    CASE c = "MISSING_SOURCE_A" -> 1 [] c = "MISSING_SOURCE_B" -> 2
      [] c = "ROUNDING_DIFF" -> 3 [] c = "FX_VARIANCE" -> 4
      [] c = "MANUAL_ENTRY_ERR" -> 5 [] c = "DATA_TYPE_MISMATCH" -> 6
      [] c = "UNKNOWN" -> 7]

Restrict(f, S) == [x \in S |-> f[x]]

\* the lookups the reason_codes table may hold: complete, or without UNKNOWN
Lookups == {FullLookup, Restrict(FullLookup, DOMAIN FullLookup \ {"UNKNOWN"})}

Actors == {"alice", "bob"}
Actions == {"APPROVE", "OVERRIDE"}
ReasonCodeInputs == {None, Some(""), Some("FX_VARIANCE"), Some("BOGUS")}

\* ResolveRequest as the schema validates it: new_reason_code is optional
\* for either action
ResolveRequest == [attribution_id : AttributionIds, action : Actions,
                   new_reason_code : ReasonCodeInputs, actor_id : Actors]

NoPayload == [attribution_id |-> 0, action |-> "", new_reason_code |-> None, actor_id |-> ""]
NoRow == [status |-> "", reason_id |-> None]

IdleRequest == [pc |-> "idle", payload |-> NoPayload, current |-> NoRow,
                new_reason_id |-> None, tx_update |-> FALSE, tx_audit |-> FALSE,
                response |-> 0]

\* the call has ended with this HTTP status and its session is closed
Ended(status) == [IdleRequest EXCEPT !.pc = "done", !.response = status]

IdleEngine == [pc |-> "idle", reason_map |-> <<>>, df_diffs |-> {}]

\* no run_ingestion or run_difference_engine process exists and nothing was
\* ingested
IdleIngest == [pc |-> "idle", run_id |-> None]
NoBatch ==
  /\ recon_runs = <<>>
  /\ recon_records = <<>>
  /\ ing = IdleIngest
  /\ dif = <<>>

\* process_record is not being called
NoRecord == [source_a_ref_id |-> SqlNull, source_b_ref_id |-> SqlNull,
             normalized_data_a |-> <<>>, normalized_data_b |-> <<>>]
NoDiffer ==
  /\ record = NoRecord
  /\ diffs = [pc |-> "idle", rows |-> <<>>]

\* neither predict nor get_review_queue is being called
NoPrediction == [pc |-> "idle", diff_record |-> <<>>, reason_id |-> None, confidence |-> 0]
NoQueue == [pc |-> "idle", limit |-> 0, response |-> <<>>]
NoCalls ==
  /\ pred = NoPrediction
  /\ queue = NoQueue

Init ==
  /\ reason_codes \in Lookups
  /\ data_differences \in [1..NumDiffs -> SampleDiffs]
  /\ attributions = <<>>
  /\ audit_trail = <<>>
  /\ req = [r \in Requests |-> IdleRequest]
  /\ eng = [e \in Engines |-> IdleEngine]
  /\ NoBatch
  /\ NoDiffer
  /\ NoCalls

(***************************************************************************)
(* run_attribution_engine: one process per engine e                        *)
(***************************************************************************)
FETCH_LIMIT == 5000

\* LEFT JOIN ... WHERE a.attribution_id IS NULL: the differences without an
\* attribution among the committed rows
PendingDiffs ==
  {i \in DOMAIN data_differences : ~\E a \in DOMAIN attributions : attributions[a].diff_id = i}

\* LIMIT 5000 without ORDER BY: any FETCH_LIMIT of the pending differences
FetchChoices ==
  {S \in SUBSET PendingDiffs : Cardinality(S) = Min(FETCH_LIMIT, Cardinality(PendingDiffs))}

RECURSIVE RowsFor(_, _)
\* the predict loop over df_diffs: one row per fetched difference
RowsFor(reason_map, S) ==
  IF S = {} THEN <<>>
  ELSE LET i == CHOOSE x \in S : \A y \in S : x <= y
       IN <<NewAttribution(reason_map, i, data_differences[i])>> \o RowsFor(reason_map, S \ {i})

\* steps 1 and 2: load the reason map, fetch the unprocessed differences;
\* return at once when there are none
EngineFetch(e) ==
  /\ eng[e].pc = "idle"
  /\ \E S \in FetchChoices :
       eng' = [eng EXCEPT ![e] = IF S = {} THEN IdleEngine
                                 ELSE [pc |-> "predict", reason_map |-> reason_codes, df_diffs |-> S]]
  /\ UNCHANGED <<calls, batch, differ, reason_codes, data_differences, attributions, audit_trail, req>>

\* variant: attributions.diff_id carries no unique constraint
DiffIdUnchecked(rows) == TRUE

\* the unique constraint on attributions.diff_id: the bulk insert is accepted
\* when no inserted row names a difference that already has an attribution
DiffIdUnique(rows) ==
  \A i \in DOMAIN rows : \A a \in DOMAIN attributions : attributions[a].diff_id # rows[i].diff_id

\* variant: the run stores its rows in place of the stored attributions
EngineInsertReplaces(e) ==
  /\ eng[e].pc = "predict"
  /\ attributions' = RowsFor(eng[e].reason_map, eng[e].df_diffs)
  /\ eng' = [eng EXCEPT ![e] = IdleEngine]
  /\ UNCHANGED <<calls, batch, differ, reason_codes, data_differences, audit_trail, req>>

\* steps 3 and 4: predict every fetched difference, bulk insert, commit; a
\* rejected insert raises and takes the except branch (EngineFail)
EngineInsert(e) ==
  /\ eng[e].pc = "predict"
  /\ DiffIdUnique(RowsFor(eng[e].reason_map, eng[e].df_diffs))
  /\ attributions' = attributions \o RowsFor(eng[e].reason_map, eng[e].df_diffs)
  /\ eng' = [eng EXCEPT ![e] = IdleEngine]
  /\ UNCHANGED <<calls, batch, differ, reason_codes, data_differences, audit_trail, req>>

\* except Exception: session.rollback() - nothing of the run is stored
EngineFail(e) ==
  /\ eng[e].pc = "predict"
  /\ eng' = [eng EXCEPT ![e] = IdleEngine]
  /\ UNCHANGED <<calls, batch, differ, reason_codes, data_differences, attributions, audit_trail, req>>

(***************************************************************************)
(* resolve_exception: r is one call of the handler, one step per awaited   *)
(* statement                                                               *)
(***************************************************************************)
\* the row lock of attribution a is held by an uncommitted UPDATE
RowLocked(a) == \E r \in Requests : req[r].tx_update /\ req[r].payload.attribution_id = a

\* repr of an optional integer inside the f-string
ReprOptInt(x) == IF x = None THEN "None" ELSE ToString(The(x))

\* f'{{"status": "{current.status}", "reason_id": {current.reason_id}}}'
FormatPrev(current) == <<"status", current.status, "reason_id", ReprOptInt(current.reason_id)>>

\* the row the UPDATE of request r writes over the committed row
UpdatedRow(r, row) ==
  [row EXCEPT !.status = "ACCEPTED", !.reason_id = req[r].new_reason_id,
              !.assigned_by = req[r].payload.actor_id]

\* the audit_trail row request r inserts
AuditRow(r) ==
  [attribution_id |-> req[r].payload.attribution_id,
   actor_id |-> req[r].payload.actor_id,
   action_type |-> req[r].payload.action,
   previous_value |-> FormatPrev(req[r].current)]

\* the writes of request r's transaction reach the committed tables
CommittedAttributions(r) ==
  IF req[r].tx_update
    THEN [attributions EXCEPT ![req[r].payload.attribution_id] = UpdatedRow(r, @)]
    ELSE attributions

\* variant: the audit row of the transaction overwrites the newest entry
CommittedAuditOverwrites(r) ==
  IF req[r].tx_audit /\ audit_trail # <<>>
    THEN [audit_trail EXCEPT ![Len(audit_trail)] = AuditRow(r)]
  ELSE IF req[r].tx_audit THEN Append(audit_trail, AuditRow(r))
  ELSE audit_trail

CommittedAudit(r) == IF req[r].tx_audit THEN Append(audit_trail, AuditRow(r)) ELSE audit_trail

\* variant: a missing row ends the call as a success
NotFoundSilent == Ended(200)

\* raise HTTPException(status_code=404) / (status_code=400): the handler
\* ends, nothing was written
NotFound == Ended(404)
BadRequest == Ended(400)

\* variant: the reason code of an OVERRIDE is not validated
AfterFetchUnchecked(q, p, cur) ==
  [q EXCEPT !.pc = "update", !.payload = p, !.current = cur, !.response = 0,
            !.new_reason_id = IF /\ p.action = "OVERRIDE" /\ p.new_reason_code # None
                                 /\ The(p.new_reason_code) \in DOMAIN reason_codes
                                THEN Some(reason_codes[The(p.new_reason_code)])
                                ELSE cur.reason_id]

\* variant: a reason code sent with an APPROVE is applied too
AfterFetchCodeOnApprove(q, p, cur) ==
  IF p.action = "OVERRIDE" /\ (p.new_reason_code = None \/ p.new_reason_code = Some(""))
    THEN BadRequest
  ELSE IF p.action = "OVERRIDE" /\ The(p.new_reason_code) \notin DOMAIN reason_codes
    THEN BadRequest
  ELSE [q EXCEPT !.pc = "update", !.payload = p, !.current = cur, !.response = 0,
                 !.new_reason_id = IF /\ p.new_reason_code # None
                                      /\ The(p.new_reason_code) \in DOMAIN reason_codes
                                     THEN Some(reason_codes[The(p.new_reason_code)])
                                     ELSE cur.reason_id]

\* variant: an OVERRIDE keeps the reason that was fetched
AfterFetchKeepsReason(q, p, cur) ==
  IF p.action = "OVERRIDE" /\ (p.new_reason_code = None \/ p.new_reason_code = Some(""))
    THEN BadRequest
  ELSE IF p.action = "OVERRIDE" /\ The(p.new_reason_code) \notin DOMAIN reason_codes
    THEN BadRequest
  ELSE [q EXCEPT !.pc = "update", !.payload = p, !.current = cur, !.response = 0,
                 !.new_reason_id = cur.reason_id]

\* 2. logic branching after the fetch: 400 for an OVERRIDE without a reason
\* code or with a code the reason_codes table does not hold (a static table,
\* so the lookup is folded into this step), otherwise on to the UPDATE
AfterFetch(q, p, cur) ==
  IF p.action = "OVERRIDE" /\ (p.new_reason_code = None \/ p.new_reason_code = Some(""))
    THEN BadRequest
  ELSE IF p.action = "OVERRIDE" /\ The(p.new_reason_code) \notin DOMAIN reason_codes
    THEN BadRequest
  ELSE [q EXCEPT !.pc = "update", !.payload = p, !.current = cur, !.response = 0,
                 !.new_reason_id = IF p.action = "OVERRIDE"
                                     THEN Some(reason_codes[The(p.new_reason_code)])
                                     ELSE cur.reason_id]

\* the row SELECT status, reason_id ... WHERE attribution_id = :aid returns
CurrentRow(aid) == [status |-> attributions[aid].status, reason_id |-> attributions[aid].reason_id]

\* call r arrives with request p, validated by the ResolveRequest schema:
\* 1. fetch current state, 404 when there is no row; 2. logic branching
FetchWith(r, p) ==
  /\ req[r].pc = "idle"
  /\ req' = [req EXCEPT ![r] =
               IF p.attribution_id \notin DOMAIN attributions
                 THEN NotFound
                 ELSE AfterFetch(req[r], p, CurrentRow(p.attribution_id))]
  /\ UNCHANGED <<calls, batch, differ, reason_codes, data_differences, attributions, audit_trail, eng>>

FetchCurrent(r) == \E p \in ResolveRequest : FetchWith(r, p)

\* 3. UPDATE recon.attributions ... WHERE attribution_id = :aid, waiting for
\* the row lock; the new values stay in the open transaction
UpdateAttribution(r) ==
  /\ req[r].pc = "update"
  /\ ~RowLocked(req[r].payload.attribution_id)
  /\ req' = [req EXCEPT ![r].pc = "audit", ![r].tx_update = TRUE]
  /\ UNCHANGED <<calls, batch, differ, reason_codes, data_differences, attributions, audit_trail, eng>>

\* 4. INSERT INTO recon.audit_trail, in the same transaction
InsertAudit(r) ==
  /\ req[r].pc = "audit"
  /\ req' = [req EXCEPT ![r].pc = "commit", ![r].tx_audit = TRUE]
  /\ UNCHANGED <<calls, batch, differ, reason_codes, data_differences, attributions, audit_trail, eng>>

\* variant: the UPDATE was committed on its own before the audit insert
AuditFailKeepsUpdate(r) ==
  /\ req[r].pc = "audit"
  /\ attributions' = CommittedAttributions(r)
  /\ req' = [req EXCEPT ![r] = Ended(500)]
  /\ UNCHANGED <<calls, batch, differ, reason_codes, data_differences, audit_trail, eng>>

\* the audit insert raises: the handler ends without a commit and get_db
\* closes the session, which rolls the UPDATE back and releases the row lock
AuditFail(r) ==
  /\ req[r].pc = "audit"
  /\ req' = [req EXCEPT ![r] = Ended(500)]
  /\ UNCHANGED <<calls, batch, differ, reason_codes, data_differences, attributions, audit_trail, eng>>

\* await db.commit(); return 200
Commit(r) ==
  /\ req[r].pc = "commit"
  /\ attributions' = CommittedAttributions(r)
  /\ audit_trail' = CommittedAudit(r)
  /\ req' = [req EXCEPT ![r] = Ended(200)]
  /\ UNCHANGED <<calls, batch, differ, reason_codes, data_differences, eng>>

Next ==
  \/ \E e \in Engines : EngineFetch(e)
  \/ \E e \in Engines : EngineInsert(e)
  \/ \E e \in Engines : EngineFail(e)
  \/ \E r \in Requests : FetchCurrent(r)
  \/ \E r \in Requests : UpdateAttribution(r)
  \/ \E r \in Requests : InsertAudit(r)
  \/ \E r \in Requests : AuditFail(r)
  \/ \E r \in Requests : Commit(r)

Spec == Init /\ [][Next]_vars

(***************************************************************************)
(* Properties of the review workflow                                       *)
(***************************************************************************)
\* the audit entries of attribution a, in insertion order
AuditOf(trail, a) == SelectSeq(trail, LAMBDA e : e.attribution_id = a)

IsPrefix(s, t) == Len(s) <= Len(t) /\ SubSeq(t, 1, Len(s)) = s

\* this step is the commit of request r's transaction
Commits(r) == req[r].pc = "commit" /\ req'[r].pc = "done" /\ req'[r].response = 200

\* C1: ACCEPTED is terminal: once an Attribution is ACCEPTED no resolve call
\* changes its status or its reason or appends an AuditEntry for it.
C1_AcceptedIsTerminal ==
  [][\A a \in DOMAIN attributions :
       attributions[a].status = "ACCEPTED" =>
         /\ attributions'[a].status = "ACCEPTED"
         /\ attributions'[a].reason_id = attributions[a].reason_id
         /\ AuditOf(audit_trail', a) = AuditOf(audit_trail, a)]_vars

\* C2: resolutions serialize per Attribution: at most one AuditEntry of an
\* Attribution records a prior status of UNKNOWN.
C2_OneTransitionFromUnknown ==
  \A a \in DOMAIN attributions :
    Cardinality({i \in DOMAIN audit_trail :
                   /\ audit_trail[i].attribution_id = a
                   /\ audit_trail[i].previous_value[2] = "UNKNOWN"}) <= 1

\* C3: every successful resolve call appends exactly one AuditEntry for its
\* Attribution, whose snapshot is the status and reason the Attribution had
\* immediately before the call's update was applied.
C3_SnapshotIsPriorState ==
  [][\A r \in Requests :
       Commits(r) =>
         LET aid == req[r].payload.attribution_id
         IN /\ Len(audit_trail') = Len(audit_trail) + 1
            /\ audit_trail'[Len(audit_trail')].attribution_id = aid
            /\ audit_trail'[Len(audit_trail')].previous_value =
                 <<"status", attributions[aid].status,
                   "reason_id", ReprOptInt(attributions[aid].reason_id)>>]_vars

\* C4: a resolve transition is atomic with its audit write: an existing
\* Attribution changes only in a step that appends the AuditEntry of the same
\* call, an AuditEntry is appended only together with the mutation of its
\* call, and a failed audit insert leaves the Attribution as it was.
C4_AtomicWithAudit ==
  [][/\ \A a \in DOMAIN attributions :
          attributions'[a] # attributions[a] =>
            /\ Len(audit_trail') = Len(audit_trail) + 1
            /\ audit_trail'[Len(audit_trail')].attribution_id = a
            /\ audit_trail'[Len(audit_trail')].actor_id = attributions'[a].assigned_by
     /\ audit_trail' # audit_trail =>
          \E r \in Requests :
            /\ Commits(r)
            /\ attributions'[req[r].payload.attribution_id].status = "ACCEPTED"
            /\ attributions'[req[r].payload.attribution_id].assigned_by = req[r].payload.actor_id
     /\ \A r \in Requests :
          req[r].pc = "audit" /\ req'[r].pc = "done" /\ req'[r].response = 500 =>
            attributions' = attributions /\ audit_trail' = audit_trail]_vars

\* a resolution was committed and the audit insert of another call failed
C4_Witness ==
  /\ \E r \in Requests : req[r].response = 500
  /\ audit_trail # <<>>

\* the request is an OVERRIDE whose reason code is missing or not a code of
\* the lookup
InvalidOverride(p) ==
  /\ p.action = "OVERRIDE"
  /\ (p.new_reason_code = None \/ The(p.new_reason_code) \notin DOMAIN reason_codes)

\* C5: an OVERRIDE whose reason code is missing or not in the lookup, sent for
\* an existing Attribution, ends with 400 at once: nothing is changed, no
\* AuditEntry is appended, and no such call is ever past the validation.
C5_InvalidOverrideRejected ==
  /\ [](\A r \in Requests : req[r].pc \notin {"idle", "done"} => ~InvalidOverride(req[r].payload))
  /\ [][\A r \in Requests :
          req[r].pc = "idle" /\ req'[r].pc # "idle" =>
            \A p \in ResolveRequest :
              (InvalidOverride(p) /\ p.attribution_id \in DOMAIN attributions /\ FetchWith(r, p)) =>
                /\ req'[r].pc = "done"
                /\ req'[r].response = 400
                /\ attributions' = attributions
                /\ audit_trail' = audit_trail]_vars

\* a call was rejected as invalid while attributions exist
C5_Witness ==
  /\ \E r \in Requests : req[r].response = 400
  /\ attributions # <<>>

\* C6: a resolve call for an attributionId that matches no Attribution ends
\* with 404: no Attribution is created or changed and no AuditEntry appended.
C6_UnknownAttributionNotFound ==
  /\ [](\A r \in Requests : req[r].pc \notin {"idle", "done"} => req[r].payload.attribution_id \in DOMAIN attributions)
  /\ [][\A r \in Requests :
          req[r].pc = "idle" /\ req'[r].pc # "idle" =>
            \A p \in ResolveRequest :
              (p.attribution_id \notin DOMAIN attributions /\ FetchWith(r, p)) =>
                /\ req'[r].pc = "done"
                /\ req'[r].response = 404
                /\ attributions' = attributions
                /\ audit_trail' = audit_trail]_vars

\* a call ended with not-found while other attributions exist
C6_Witness ==
  /\ \E r \in Requests : req[r].response = 404
  /\ attributions # <<>>

\* C7: a successful APPROVE of an Attribution in status UNKNOWN (when the call
\* fetched it, or when its update is applied) sets the status to ACCEPTED,
\* leaves the reason as it was and records the actor as assignor.
C7_ApproveKeepsReason ==
  [][\A r \in Requests :
       Commits(r) /\ req[r].payload.action = "APPROVE" =>
         LET aid == req[r].payload.attribution_id
         IN /\ attributions[aid].status = "UNKNOWN" =>
                 /\ attributions'[aid].status = "ACCEPTED"
                 /\ attributions'[aid].reason_id = attributions[aid].reason_id
                 /\ attributions'[aid].assigned_by = req[r].payload.actor_id
            /\ req[r].current.status = "UNKNOWN" =>
                 /\ attributions'[aid].status = "ACCEPTED"
                 /\ attributions'[aid].reason_id = req[r].current.reason_id
                 /\ attributions'[aid].assigned_by = req[r].payload.actor_id]_vars

\* an APPROVE of an UNKNOWN attribution was committed
C7_Witness ==
  \E i \in DOMAIN audit_trail :
    /\ audit_trail[i].action_type = "APPROVE"
    /\ audit_trail[i].previous_value[2] = "UNKNOWN"
    /\ attributions[audit_trail[i].attribution_id].status = "ACCEPTED"
    /\ attributions[audit_trail[i].attribution_id].assigned_by = audit_trail[i].actor_id

\* C8: a successful OVERRIDE of an Attribution in status UNKNOWN with a reason
\* code of the lookup sets the status to ACCEPTED, the reason to the id the
\* lookup maps the code to, and records the actor as assignor.
C8_OverrideSetsReason ==
  [][\A r \in Requests :
       (/\ Commits(r)
        /\ req[r].payload.action = "OVERRIDE"
        /\ \/ attributions[req[r].payload.attribution_id].status = "UNKNOWN"
           \/ req[r].current.status = "UNKNOWN") =>
         LET aid == req[r].payload.attribution_id
             code == The(req[r].payload.new_reason_code)
         IN /\ code \in DOMAIN reason_codes
            /\ attributions'[aid].status = "ACCEPTED"
            /\ attributions'[aid].reason_id = Some(reason_codes[code])
            /\ attributions'[aid].assigned_by = req[r].payload.actor_id]_vars

\* an OVERRIDE of an UNKNOWN attribution was committed with reason FX_VARIANCE
C8_Witness ==
  \E i \in DOMAIN audit_trail :
    /\ audit_trail[i].action_type = "OVERRIDE"
    /\ audit_trail[i].previous_value[2] = "UNKNOWN"
    /\ attributions[audit_trail[i].attribution_id].status = "ACCEPTED"
    /\ attributions[audit_trail[i].attribution_id].reason_id = Some(reason_codes["FX_VARIANCE"])

\* C9: the audit trail is append-only: every step leaves the trail, and the
\* entries of each Attribution, a prefix of what they are after the step.
C9_AuditAppendOnly ==
  [][/\ IsPrefix(audit_trail, audit_trail')
     /\ \A a \in AttributionIds : IsPrefix(AuditOf(audit_trail, a), AuditOf(audit_trail', a))]_vars

\* two entries were appended for one attribution
C9_Witness ==
  \E a \in DOMAIN attributions : Len(AuditOf(audit_trail, a)) >= 2

\* C10: every Attribution with confidence below 0.85 and status ACCEPTED has an
\* AuditEntry: it became ACCEPTED by a resolve call, never automatically.
C10_LowConfidenceNeedsReview ==
  \A a \in DOMAIN attributions :
    (attributions[a].confidence_score < 85 /\ attributions[a].status = "ACCEPTED") =>
      AuditOf(audit_trail, a) # <<>>

\* a low-confidence attribution was accepted by a reviewer
C10_Witness ==
  \E a \in DOMAIN attributions :
    /\ attributions[a].confidence_score < 85
    /\ attributions[a].status = "ACCEPTED"
    /\ attributions[a].assigned_by \in Actors

(***************************************************************************)
(* Overlapping and repeated executions of run_attribution_engine, without  *)
(* the review workflow                                                     *)
(***************************************************************************)
\* engine processes that may run at the same time
NumOverlapping == 2
OverlappingEngines == 1..NumOverlapping

InitEngines ==
  /\ reason_codes \in Lookups
  /\ data_differences \in [1..NumDiffs -> EngineDiffs]
  /\ attributions = <<>>
  /\ audit_trail = <<>>
  /\ req = [r \in Requests |-> IdleRequest]
  /\ eng = [e \in OverlappingEngines |-> IdleEngine]
  /\ NoBatch
  /\ NoDiffer
  /\ NoCalls

NextEngines ==
  \/ \E e \in OverlappingEngines : EngineFetch(e)
  \/ \E e \in OverlappingEngines : EngineInsert(e)
  \/ \E e \in OverlappingEngines : EngineFail(e)

SpecEngines == InitEngines /\ [][NextEngines]_vars

\* the attributions of difference i
AttributionsOf(i) == {a \in DOMAIN attributions : attributions[a].diff_id = i}

C12_InitialStatusByThreshold ==
  [][\A a \in DOMAIN attributions' :
       a \notin DOMAIN attributions =>
         /\ attributions'[a].status \in {"ACCEPTED", "UNKNOWN"}
         /\ attributions'[a].confidence_score >= 85 => attributions'[a].status = "ACCEPTED"
         /\ attributions'[a].confidence_score < 85 => attributions'[a].status = "UNKNOWN"]_vars

\* the engine created an attribution at confidence 0.88 and one below the
\* threshold
C12_Witness ==
  /\ \E a \in DOMAIN attributions :
       attributions[a].confidence_score = 88 /\ attributions[a].status = "ACCEPTED"
  /\ \E a \in DOMAIN attributions :
       attributions[a].confidence_score < 85 /\ attributions[a].status = "UNKNOWN"

\* the reason code predict's type rules name for a difference type
RuleReason(diff_type) ==
  CASE diff_type = "MISSING_IN_SOURCE_A" -> "MISSING_SOURCE_A"
    [] diff_type = "MISSING_IN_SOURCE_B" -> "MISSING_SOURCE_B"
    [] diff_type = "TYPE_MISMATCH" -> "DATA_TYPE_MISMATCH"

\* C20: for every Difference of type MISSING_IN_SOURCE_A, MISSING_IN_SOURCE_B
\* or TYPE_MISMATCH, whatever its values, predict returns the id of reason
\* MISSING_SOURCE_A, MISSING_SOURCE_B or DATA_TYPE_MISMATCH respectively with
\* confidence 1.0, and the Attribution created for it is ACCEPTED.
C20_TypeRulesFullConfidence ==
  /\ \A i \in DOMAIN data_differences :
       data_differences[i].diff_type \in {"MISSING_IN_SOURCE_A", "MISSING_IN_SOURCE_B", "TYPE_MISMATCH"} =>
         Predict(reason_codes, data_differences[i]) =
           <<Some(reason_codes[RuleReason(data_differences[i].diff_type)]), 100>>
  /\ \A a \in DOMAIN attributions :
       LET d == data_differences[attributions[a].diff_id]
       IN d.diff_type \in {"MISSING_IN_SOURCE_A", "MISSING_IN_SOURCE_B", "TYPE_MISMATCH"} =>
            /\ attributions[a].reason_id = Some(reason_codes[RuleReason(d.diff_type)])
            /\ attributions[a].confidence_score = 100
            /\ attributions[a].status = "ACCEPTED"

\* the engine attributed a TYPE_MISMATCH whose two values are numbers 0.01
\* apart and a MISSING_IN_SOURCE_B difference
C20_Witness ==
  /\ \E a \in DOMAIN attributions :
       LET d == data_differences[attributions[a].diff_id]
       IN /\ d.diff_type = "TYPE_MISMATCH"
          /\ d.value_a = <<"1", "0", "0", ".", "0", "0">>
          /\ attributions[a].status = "ACCEPTED"
  /\ \E a \in DOMAIN attributions :
       /\ data_differences[attributions[a].diff_id].diff_type = "MISSING_IN_SOURCE_B"
       /\ attributions[a].status = "ACCEPTED"

(***************************************************************************)
(* predict on its own: one call on an arbitrary difference, the model      *)
(* built from an arbitrary content of recon.reason_codes                   *)
(***************************************************************************)
\* contents of the reason_codes table: complete, or with codes missing
LookupInputs ==
  { FullLookup,
    Restrict(FullLookup, DOMAIN FullLookup \ {"UNKNOWN"}),
    Restrict(FullLookup, DOMAIN FullLookup \ {"ROUNDING_DIFF", "MISSING_SOURCE_B"}),
    Restrict(FullLookup, {"UNKNOWN"}),
    Restrict(FullLookup, {}) }

InitPredict ==
  /\ reason_codes \in LookupInputs
  /\ data_differences = <<>>
  /\ attributions = <<>>
  /\ audit_trail = <<>>
  /\ req = [r \in Requests |-> IdleRequest]
  /\ eng = [e \in Engines |-> IdleEngine]
  /\ NoBatch
  /\ NoDiffer
  /\ pred \in {[NoPrediction EXCEPT !.diff_record = d] : d \in PredictInputs}
  /\ queue = NoQueue

\* AttributionModel(get_reason_map(session)).predict(diff_record) is called
\* and returns, or raises
CallPredict ==
  /\ pred.pc = "idle"
  /\ pred' = IF PredictRaises(pred.diff_record) # "none"
              THEN [pred EXCEPT !.pc = "raised"]
              ELSE [pred EXCEPT !.pc = "returned",
                                !.reason_id = Predict(reason_codes, pred.diff_record)[1],
                                !.confidence = Predict(reason_codes, pred.diff_record)[2]]
  /\ UNCHANGED <<queue, batch, differ, reason_codes, data_differences, attributions, audit_trail, req, eng>>

NextPredict == CallPredict

SpecPredict == InitPredict /\ [][NextPredict]_vars

\* the difference predict was called on, and the two values of a numeric
\* difference as exact decimals (Scale units per 1)
Diff == pred.diff_record
BothParse == CanFloat(Diff.value_a) /\ CanFloat(Diff.value_b)
ExactA == Float(Diff.value_a)
ExactDelta == Abs(Float(Diff.value_a) - Float(Diff.value_b))

\* |a-b| / |A| lies strictly between 0.005 and 0.03
ExactInFxBand == 5 * Abs(ExactA) < 1000 * ExactDelta /\ 1000 * ExactDelta < 30 * Abs(ExactA)

\* predict returned the id of this reason when the lookup holds it
ReturnedReason(code) == code \in DOMAIN reason_codes => pred.reason_id = Some(reason_codes[code])

\* predict returned the fallback: UNKNOWN, or null when the lookup has no
\* UNKNOWN, with confidence 0.0
ReturnedFallback == pred.reason_id = MapGet(reason_codes, "UNKNOWN") /\ pred.confidence = 0

\* C21: for every NUMERIC_MISMATCH whose two values parse as numbers with
\* |a-b| < 0.02, predict returns reason ROUNDING_DIFF with confidence 0.98,
\* also when |a-b| / |a| lies in the FX band (0.005, 0.03); FX_VARIANCE is
\* never returned for such a difference.
C21_RoundingTakesPrecedence ==
  (/\ pred.pc # "idle" /\ Diff.diff_type = "NUMERIC_MISMATCH" /\ BothParse
   /\ ExactDelta * 100 < 2 * Scale) =>
    /\ pred.pc = "returned"
    /\ pred.confidence = 98
    /\ ReturnedReason("ROUNDING_DIFF")
    /\ "FX_VARIANCE" \in DOMAIN reason_codes => pred.reason_id # Some(reason_codes["FX_VARIANCE"])

\* predict returned ROUNDING_DIFF for a difference below 0.02 that is also
\* inside the FX band
C21_Witness ==
  /\ pred.pc = "returned" /\ Diff.diff_type = "NUMERIC_MISMATCH" /\ BothParse
  /\ ExactDelta * 100 < 2 * Scale
  /\ ExactInFxBand
  /\ "ROUNDING_DIFF" \in DOMAIN reason_codes /\ "FX_VARIANCE" \in DOMAIN reason_codes
  /\ pred.reason_id = Some(reason_codes["ROUNDING_DIFF"])

\* C22: for every NUMERIC_MISMATCH whose two values parse as numbers with
\* |a-b| >= 0.02, predict returns FX_VARIANCE with confidence 0.88 exactly
\* when |a-b| / |A| lies strictly between 0.005 and 0.03, for positive and
\* negative A alike; with A = 0 the percentage is 0, and outside the band
\* the result is the fallback (UNKNOWN, 0.0).
C22_FxBandBothSigns ==
  (/\ pred.pc # "idle" /\ Diff.diff_type = "NUMERIC_MISMATCH" /\ BothParse
   /\ ExactDelta * 100 >= 2 * Scale) =>
    /\ pred.pc = "returned"
    /\ IF ExactA # 0 /\ ExactInFxBand
         THEN pred.confidence = 88 /\ ReturnedReason("FX_VARIANCE")
         ELSE ReturnedFallback

\* C23: for every STRING_MISMATCH whose two values become equal after
\* removing all periods and commas and trimming surrounding whitespace,
\* predict returns MANUAL_ENTRY_ERR with confidence 0.90; for every
\* STRING_MISMATCH whose normalized forms differ it returns the fallback.
C23_NormalizedStringsMatch ==
  (/\ pred.pc # "idle" /\ Diff.diff_type = "STRING_MISMATCH"
   /\ Diff.value_a # SqlNull /\ Diff.value_b # SqlNull) =>
    /\ pred.pc = "returned"
    /\ IF NormalizeStr(Diff.value_a) = NormalizeStr(Diff.value_b)
         THEN pred.confidence = 90 /\ ReturnedReason("MANUAL_ENTRY_ERR")
         ELSE ReturnedFallback

\* C24: a null reason is returned only as the fallback, with confidence 0.0
\* and only when UNKNOWN is absent from the lookup: a reason code missing
\* from the lookup never gives a null reason with a confidence above 0.0,
\* and so never an attribution that is stored ACCEPTED.
C24_NullReasonOnlyAsFallback ==
  (pred.pc = "returned" /\ pred.reason_id = None) =>
    /\ pred.confidence = 0
    /\ "UNKNOWN" \notin DOMAIN reason_codes
    /\ InitialStatus(pred.confidence) # "ACCEPTED"

\* a parse of value v was tried and failed: a text, not empty, that is no
\* number
ParseFails(v) == Truthy(v) /\ ~CanFloat(v)

\* C25 as stated, a null or empty value counted among those that cannot be
\* parsed: predict never raises, returns a confidence in [0, 1], and for a
\* NUMERIC_MISMATCH with a value that is no number returns the fallback.
C25_AlwaysAResultAsStated ==
  pred.pc # "idle" =>
    /\ pred.pc = "returned"
    /\ pred.confidence \in 0..100
    /\ (Diff.diff_type = "NUMERIC_MISMATCH" /\ ~BothParse) => ReturnedFallback

\* C25: for every difference, of any type and with any values (null, empty
\* or non-numeric text included), predict returns a (reason, confidence)
\* pair with confidence in [0, 1] and never raises; for a NUMERIC_MISMATCH
\* with a non-empty value that is no number the numeric rule does not match
\* and the result is the fallback (UNKNOWN, 0.0).  A null or empty value is
\* not parsed: it is read as 0.0.
C25_AlwaysAResult ==
  pred.pc # "idle" =>
    /\ pred.pc = "returned"
    /\ pred.confidence \in 0..100
    /\ (/\ Diff.diff_type = "NUMERIC_MISMATCH"
        /\ (ParseFails(Diff.value_a) \/ ParseFails(Diff.value_b))) => ReturnedFallback

\* predict returned the fallback for a NUMERIC_MISMATCH of a number against
\* a text that is none
C25_Witness ==
  /\ pred.pc = "returned" /\ Diff.diff_type = "NUMERIC_MISMATCH"
  /\ CanFloat(Diff.value_a) /\ ParseFails(Diff.value_b)
  /\ "UNKNOWN" \in DOMAIN reason_codes
  /\ pred.reason_id = Some(reason_codes["UNKNOWN"]) /\ pred.confidence = 0

(***************************************************************************)
(* Executions of run_attribution_engine after a review: difference 1 has   *)
(* an attribution a reviewer resolved, the other differences have none yet *)
(***************************************************************************)
\* the attribution of difference 1 as the engine stored it and a resolve by
\* actor with reason_id left it
ResolvedRow(lookup, d, actor, reason_id) ==
  [NewAttribution(lookup, 1, d) EXCEPT !.status = "ACCEPTED", !.reason_id = reason_id,
                                       !.assigned_by = actor]

InitRerun ==
  /\ reason_codes \in Lookups
  /\ data_differences \in [1..NumDiffs -> EngineDiffs]
  /\ \E actor \in Actors, code \in {"FX_VARIANCE", "MANUAL_ENTRY_ERR"} :
       /\ attributions = <<ResolvedRow(reason_codes, data_differences[1], actor,
                                       Some(reason_codes[code]))>>
       /\ audit_trail = <<[attribution_id |-> 1, actor_id |-> actor, action_type |-> "OVERRIDE",
                           previous_value |-> FormatPrev(NewAttribution(reason_codes, 1,
                                                                        data_differences[1]))]>>
  /\ req = [r \in Requests |-> IdleRequest]
  /\ eng = [e \in OverlappingEngines |-> IdleEngine]
  /\ NoBatch
  /\ NoDiffer
  /\ NoCalls

SpecRerun == InitRerun /\ [][NextEngines]_vars

Orders(S) ==
  {o \in [1..Cardinality(S) -> S] : \A i, j \in 1..Cardinality(S) : i # j => o[i] # o[j]}

(***************************************************************************)
(* get_review_queue: one call of GET /workflow/queue over an arbitrary     *)
(* content of recon.attributions.  The rules of predict store 0.0 for      *)
(* every row they leave UNKNOWN; the query is checked against rows of any  *)
(* confidence below the threshold.                                         *)
(***************************************************************************)
\* rows of recon.attributions, and the largest limit asked for
NumQueued == 3
MaxLimit == 3

\* an attribution as the engine stored it (UNKNOWN below the threshold,
\* ACCEPTED from it on) or as a resolve left it (ACCEPTED)
QueueRows ==
  [diff_id : {0}, reason_id : {Some(7)}, confidence_score : {0, 50, 84},
   status : {"UNKNOWN"}, assigned_by : {"AI_ENGINE_V1"}]
  \cup [diff_id : {0}, reason_id : {Some(4)}, confidence_score : {88},
        status : {"ACCEPTED"}, assigned_by : {"AI_ENGINE_V1"}]
  \cup [diff_id : {0}, reason_id : {Some(7)}, confidence_score : {0},
        status : {"ACCEPTED"}, assigned_by : {"alice"}]

InitQueue ==
  /\ reason_codes = FullLookup
  /\ data_differences \in [1..NumQueued -> {CHOOSE d \in SampleDiffs : d.diff_type = "STRING_MISMATCH"}]
  /\ attributions \in {[a \in 1..NumQueued |-> [rows[a] EXCEPT !.diff_id = a]] :
                          rows \in [1..NumQueued -> QueueRows]}
  /\ audit_trail = <<>>
  /\ req = [r \in Requests |-> IdleRequest]
  /\ eng = [e \in Engines |-> IdleEngine]
  /\ NoBatch
  /\ NoDiffer
  /\ NoCalls

\* FROM recon.attributions a JOIN recon.data_differences d ON a.diff_id =
\* d.diff_id ... WHERE a.status = 'UNKNOWN' (every difference has its record,
\* and the LEFT JOIN on reason_codes drops no row)
PendingRows ==
  {a \in DOMAIN attributions :
     attributions[a].diff_id \in DOMAIN data_differences /\ attributions[a].status = "UNKNOWN"}

\* variant: ORDER BY a.confidence_score DESC
OrderedByConfidenceDesc(order) ==
  \A i, j \in DOMAIN order :
    i < j => attributions[order[i]].confidence_score >= attributions[order[j]].confidence_score

\* ORDER BY a.confidence_score ASC: rows of equal confidence come in any
\* order
OrderedByConfidence(order) ==
  \A i, j \in DOMAIN order :
    i < j => attributions[order[i]].confidence_score <= attributions[order[j]].confidence_score

\* one element of the response list
ReviewItem(a) ==
  [attribution_id |-> a, confidence_score |-> attributions[a].confidence_score,
   status |-> attributions[a].status]

\* GET /workflow/queue?limit=: the query and the mapping of its rows; the
\* database rejects a negative LIMIT and the call fails
GetReviewQueue(limit) ==
  /\ queue.pc = "idle"
  /\ IF limit < 0
       THEN queue' = [queue EXCEPT !.pc = "failed", !.limit = limit]
       ELSE \E order \in Orders(PendingRows) :
              /\ OrderedByConfidence(order)
              /\ queue' = [pc |-> "returned", limit |-> limit,
                           response |-> [i \in 1..Min(limit, Len(order)) |-> ReviewItem(order[i])]]
  /\ UNCHANGED <<pred, batch, differ, reason_codes, data_differences, attributions, audit_trail, req, eng>>

NextQueue == \E limit \in -1..MaxLimit : GetReviewQueue(limit)

SpecQueue == InitQueue /\ [][NextQueue]_vars

\* C26: get_review_queue(limit) returns only attributions whose status is
\* UNKNOWN at the time of the call, at most limit of them, in non-decreasing
\* order of confidence, and they are the lowest-confidence pending ones: no
\* pending attribution left out has a confidence lower than one returned.
C26_QueueLowestConfidenceFirst ==
  queue.pc = "returned" =>
    LET returned == {queue.response[i].attribution_id : i \in DOMAIN queue.response}
    IN /\ Len(queue.response) <= queue.limit
       /\ Cardinality(returned) = Len(queue.response)
       /\ \A i \in DOMAIN queue.response :
            /\ queue.response[i].attribution_id \in DOMAIN attributions
            /\ attributions[queue.response[i].attribution_id].status = "UNKNOWN"
            /\ queue.response[i].confidence_score =
                 attributions[queue.response[i].attribution_id].confidence_score
       /\ \A i, j \in DOMAIN queue.response :
            i < j => queue.response[i].confidence_score <= queue.response[j].confidence_score
       /\ \A a \in DOMAIN attributions :
            (attributions[a].status = "UNKNOWN" /\ a \notin returned) =>
              /\ Len(queue.response) = queue.limit
              /\ \A i \in DOMAIN queue.response :
                   queue.response[i].confidence_score <= attributions[a].confidence_score

\* a call with limit 2 returned two of three pending attributions of
\* different confidence while an ACCEPTED row of lower confidence exists
C26_Witness ==
  /\ queue.pc = "returned" /\ queue.limit = 2 /\ Len(queue.response) = 2
  /\ queue.response[1].confidence_score < queue.response[2].confidence_score
  /\ \E a \in DOMAIN attributions :
       /\ attributions[a].status = "UNKNOWN"
       /\ attributions[a].confidence_score > queue.response[2].confidence_score

(***************************************************************************)
(* process_record on its own: one call on an arbitrary record pair         *)
(***************************************************************************)
\* field names a normalized field map may use, in ascending order
NumFields == 2
FieldUniverse == <<"amount", "name", "note">>
FieldNames == SubSeq(FieldUniverse, 1, Min(NumFields, Len(FieldUniverse)))
Fields == {FieldNames[i] : i \in DOMAIN FieldNames}

\* the values a field may carry on one side
FieldValues(key) ==
  CASE key = "amount" ->
         { PyStr(<<"1", "0", "0", ".", "0", "0">>), PyStr(<<"1", "0", "0", ".", "0", "0", "5">>),
           PyStr(<<"1", "0", "0", ".", "0", "1">>), PyStr(<<"0", ".", "0", "0", "9">>),
           PyStr(<<"0", ".", "0", "1", "4">>), PyNum(<<"1">>), PyStr(<<"a", "b", "c">>) }
    [] key = "name" ->
         { PyNone, PyStr(<<"A", "l", "i", "c", "e">>), PyStr(<<"A", "l", "i", "c", "i", "a">>),
           PyBool(TRUE), PyStr(<<"T", "r", "u", "e">>), PyNum(<<"1">>), PyStr(<<"1", ".", "0">>) }
    [] OTHER -> { PyStr(<<"x">>) }

\* the normalized field maps: any subset of the fields, each with one of its
\* values
FieldMaps ==
  UNION { {m \in [S -> UNION {FieldValues(k) : k \in Fields}] : \A k \in S : m[k] \in FieldValues(k)} :
          S \in SUBSET Fields }

\* a reference id: None, the empty string or an id
RefIds == {SqlNull, <<>>, <<"i", "d">>}

\* the record pairs process_record is called with; a pair with an absent
\* side comes with every field map that has at most the first field
RecordPairs ==
  { r \in [source_a_ref_id : RefIds, source_b_ref_id : RefIds,
           normalized_data_a : FieldMaps, normalized_data_b : FieldMaps] :
      (~Truthy(r.source_a_ref_id) \/ ~Truthy(r.source_b_ref_id)) =>
        (DOMAIN r.normalized_data_a \cup DOMAIN r.normalized_data_b) \subseteq {FieldNames[1]} }

InitDiffer ==
  /\ reason_codes = FullLookup
  /\ data_differences = <<>>
  /\ attributions = <<>>
  /\ audit_trail = <<>>
  /\ req = [r \in Requests |-> IdleRequest]
  /\ eng = [e \in Engines |-> IdleEngine]
  /\ NoBatch
  /\ record \in RecordPairs
  /\ diffs = [pc |-> "idle", rows |-> <<>>]
  /\ NoCalls

\* process_record(record) is called and returns diffs
CallProcessRecord ==
  /\ diffs.pc = "idle"
  /\ \E order \in Orders(AllKeys(record)) :
       diffs' = [pc |-> "returned", rows |-> process_record(record, order)]
  /\ UNCHANGED <<calls, batch, record, reason_codes, data_differences, attributions, audit_trail, req, eng>>

NextDiffer == CallProcessRecord

SpecDiffer == InitDiffer /\ [][NextDiffer]_vars

\* the rows process_record returned for field key
RowsOfField(key) == SelectSeq(diffs.rows, LAMBDA d : d.field_name = key)

\* a reference id is absent: null, or the empty string
Absent(ref_id) == ref_id = SqlNull \/ ref_id = <<>>

\* process_record has returned from the field comparison of a pair that has
\* both sides
Compared == diffs.pc = "returned" /\ ~Absent(record.source_a_ref_id) /\ ~Absent(record.source_b_ref_id)

ValueA(key) == DictGet(record.normalized_data_a, key)
ValueB(key) == DictGet(record.normalized_data_b, key)

\* the number a numeric field value stands for, exactly, in units of 1 / Scale
ExactValue(v) == IF v.kind = "bool" THEN (IF v.flag THEN Scale ELSE 0) ELSE Float(v.text)

\* C15: for every record pair with one side's reference id absent, whatever
\* the field maps hold, process_record returns exactly one Difference and no
\* field-level one: field ENTIRE_RECORD, the absent side null, the other side
\* "EXISTS", MISSING_IN_SOURCE_A when side A is absent, MISSING_IN_SOURCE_B
\* when side B is absent and side A present.
C15_MissingSideSingleDifference ==
  diffs.pc = "returned" =>
    /\ Absent(record.source_a_ref_id) =>
         diffs.rows = <<[field_name |-> "ENTIRE_RECORD", value_a |-> SqlNull,
                         value_b |-> <<"E", "X", "I", "S", "T", "S">>,
                         diff_type |-> "MISSING_IN_SOURCE_A"]>>
    /\ (~Absent(record.source_a_ref_id) /\ Absent(record.source_b_ref_id)) =>
         diffs.rows = <<[field_name |-> "ENTIRE_RECORD", value_a |-> <<"E", "X", "I", "S", "T", "S">>,
                         value_b |-> SqlNull, diff_type |-> "MISSING_IN_SOURCE_B"]>>

\* process_record returned for a pair without side B whose field maps differ
C15_Witness ==
  /\ diffs.pc = "returned"
  /\ ~Absent(record.source_a_ref_id) /\ Absent(record.source_b_ref_id)
  /\ \E key \in AllKeys(record) : ValueA(key) # ValueB(key)
  /\ Len(diffs.rows) = 1

\* C16: for every field whose two values are both non-null and both parseable
\* as numbers, no Difference is emitted when |a-b| is at most 0.005 (exactly
\* 0.005 included) and exactly one, of type NUMERIC_MISMATCH, when |a-b|
\* exceeds 0.005.
C16_NumericTolerance ==
  Compared =>
    \A key \in AllKeys(record) :
      (/\ ValueA(key).kind # "none" /\ ValueB(key).kind # "none"
       /\ is_numeric(ValueA(key)) /\ is_numeric(ValueB(key))) =>
        IF Abs(ExactValue(ValueA(key)) - ExactValue(ValueB(key))) * 1000 <= 5 * Scale
          THEN RowsOfField(key) = <<>>
          ELSE /\ Len(RowsOfField(key)) = 1
               /\ RowsOfField(key)[1].diff_type = "NUMERIC_MISMATCH"

\* C17: for every field in the union of the two sides' field names, a field
\* present on one side only being read as null on the other: no Difference
\* when both values are null, exactly one Difference of type NULL_MISMATCH
\* when exactly one is null, whatever the other value is; no Difference names
\* a field outside the union.
C17_NullComparison ==
  Compared =>
    /\ \A key \in AllKeys(record) :
         /\ (ValueA(key).kind = "none" /\ ValueB(key).kind = "none") => RowsOfField(key) = <<>>
         /\ ((ValueA(key).kind = "none") # (ValueB(key).kind = "none")) =>
              RowsOfField(key) = <<[field_name |-> key, value_a |-> StrOrNull(ValueA(key)),
                                    value_b |-> StrOrNull(ValueB(key)), diff_type |-> "NULL_MISMATCH"]>>
    /\ \A i \in DOMAIN diffs.rows : diffs.rows[i].field_name \in AllKeys(record)

\* a pair was compared that has a field on one side only, with a text that is
\* no number, and a field null on both sides
C17_Witness ==
  /\ Compared
  /\ \E key \in AllKeys(record) :
       /\ key \notin DOMAIN record.normalized_data_b
       /\ ~is_numeric(ValueA(key))
       /\ Len(RowsOfField(key)) = 1
  /\ \E key \in AllKeys(record) : ValueA(key).kind = "none" /\ ValueB(key).kind = "none"

\* C18: for every field whose two values are both non-null and not both
\* parseable as numbers: exactly one Difference of type STRING_MISMATCH when
\* the canonical string forms differ, none when they are equal, so values
\* that differ only in type representation give no Difference.
C18_StringComparison ==
  Compared =>
    \A key \in AllKeys(record) :
      (/\ ValueA(key).kind # "none" /\ ValueB(key).kind # "none"
       /\ ~(is_numeric(ValueA(key)) /\ is_numeric(ValueB(key)))) =>
        IF Str(ValueA(key)) # Str(ValueB(key))
          THEN RowsOfField(key) = <<[field_name |-> key, value_a |-> Str(ValueA(key)),
                                     value_b |-> Str(ValueB(key)), diff_type |-> "STRING_MISMATCH"]>>
          ELSE RowsOfField(key) = <<>>

\* a pair was compared in which one field holds the bool True against the
\* text "True" (no Difference) and another a number against a text that is
\* none (a STRING_MISMATCH)
C18_Witness ==
  /\ Compared
  /\ \E key \in AllKeys(record) :
       /\ ValueA(key).kind = "bool" /\ ValueB(key).kind = "str"
       /\ Str(ValueA(key)) = Str(ValueB(key))
       /\ RowsOfField(key) = <<>>
  /\ \E key \in AllKeys(record) :
       /\ is_numeric(ValueA(key)) /\ ValueB(key).kind = "str" /\ ~is_numeric(ValueB(key))
       /\ Len(RowsOfField(key)) = 1

\* position of a field name in the ascending order of the names
FieldRank(name) == CHOOSE i \in DOMAIN FieldNames : FieldNames[i] = name

\* C19: the sequence of field-level Differences process_record returns is in
\* ascending field-name order, so two calls on the same record pair return
\* the same sequence.
C19_SortedFieldOrder ==
  Compared =>
    \A i, j \in DOMAIN diffs.rows :
      i < j => FieldRank(diffs.rows[i].field_name) < FieldRank(diffs.rows[j].field_name)

(***************************************************************************)
(* The batch side: one run_ingestion and repeated or overlapping           *)
(* executions of run_difference_engine.  A run id is the position of the   *)
(* run in recon_runs, a record id the position of the record in            *)
(* recon_records (ORDER BY record_id is that order), a diff id the         *)
(* position of the row in data_differences (uuid4: never reused).  A       *)
(* storage error may hit any statement of the two try blocks; the UPDATE   *)
(* in the except branch of run_ingestion is taken to go through.           *)
(***************************************************************************)
BATCH_SIZE == 1000
\* records the ingested run has, executions of run_difference_engine
NumRecords == 1001
NumExecutions == 2

Executions == 1..NumExecutions

\* the aligned pairs the ingestion stores: by turns a pair that matches, one
\* missing on side A, one missing on side B and one with a differing name
IngestedRecord(run_id, i) ==
  LET alice == [k \in {"name"} |-> PyStr(<<"A", "l", "i", "c", "e">>)]
      alicia == [k \in {"name"} |-> PyStr(<<"A", "l", "i", "c", "i", "a">>)]
      none == [k \in {} |-> PyNone]
  IN CASE i % 4 = 0 -> [run_id |-> run_id, source_a_ref_id |-> <<"i", "d">>, source_b_ref_id |-> <<"i", "d">>,
                        normalized_data_a |-> alice, normalized_data_b |-> alice]
       [] i % 4 = 1 -> [run_id |-> run_id, source_a_ref_id |-> SqlNull, source_b_ref_id |-> <<"i", "d">>,
                        normalized_data_a |-> none, normalized_data_b |-> alice]
       [] i % 4 = 2 -> [run_id |-> run_id, source_a_ref_id |-> <<"i", "d">>, source_b_ref_id |-> SqlNull,
                        normalized_data_a |-> alice, normalized_data_b |-> none]
       [] OTHER -> [run_id |-> run_id, source_a_ref_id |-> <<"i", "d">>, source_b_ref_id |-> <<"i", "d">>,
                    normalized_data_a |-> alice, normalized_data_b |-> alicia]

\* batch_size is the BATCH_SIZE the execution runs with
IdleExecution == [pc |-> "idle", batch_size |-> BATCH_SIZE, target_run_id |-> None, offset |-> 0,
                  total_diffs_found |-> 0, records |-> <<>>]

InitBatch ==
  /\ reason_codes = FullLookup
  /\ data_differences = <<>>
  /\ attributions = <<>>
  /\ audit_trail = <<>>
  /\ req = [r \in Requests |-> IdleRequest]
  /\ eng = [e \in Engines |-> IdleEngine]
  /\ recon_runs = <<>>
  /\ recon_records = <<>>
  /\ ing = IdleIngest
  /\ dif = [x \in Executions |-> IdleExecution]
  /\ NoDiffer
  /\ NoCalls

\* B. Initialize Run Record: INSERT ... 'RUNNING'; commit
IngestStart ==
  /\ ing.pc = "idle"
  /\ recon_runs' = Append(recon_runs, [status |-> "RUNNING", total_differences |-> 0])
  /\ ing' = [pc |-> "running", run_id |-> Some(Len(recon_runs) + 1)]
  /\ UNCHANGED <<calls, recon_records, dif, differ, reason_codes, data_differences, attributions, audit_trail, req, eng>>

\* C to F: fetch, align, bulk insert of the records, UPDATE ... 'COMPLETED',
\* one commit
IngestComplete ==
  /\ ing.pc = "running"
  /\ recon_records' = recon_records \o [i \in 1..NumRecords |-> IngestedRecord(The(ing.run_id), i)]
  /\ recon_runs' = [recon_runs EXCEPT ![The(ing.run_id)].status = "COMPLETED"]
  /\ ing' = [ing EXCEPT !.pc = "done"]
  /\ UNCHANGED <<calls, dif, differ, reason_codes, data_differences, attributions, audit_trail, req, eng>>

\* except Exception: rollback, UPDATE ... SET status = 'FAILED', commit
IngestFail ==
  /\ ing.pc = "running"
  /\ recon_runs' = [recon_runs EXCEPT ![The(ing.run_id)].status = "FAILED"]
  /\ ing' = [ing EXCEPT !.pc = "failed"]
  /\ UNCHANGED <<calls, recon_records, dif, differ, reason_codes, data_differences, attributions, audit_trail, req, eng>>

\* SELECT run_id ... WHERE status = 'COMPLETED' ORDER BY end_time DESC LIMIT 1
LatestCompleted ==
  LET done == {i \in DOMAIN recon_runs : recon_runs[i].status = "COMPLETED"}
  IN IF done = {} THEN None ELSE Some(CHOOSE i \in done : \A j \in done : j <= i)

\* 1. Identify Run to Process: the given target_run_id (the pipeline passes a
\* run whose ingestion completed), or the latest COMPLETED run; return when
\* there is none
DiffStart(x) ==
  /\ dif[x].pc = "idle"
  /\ \E given \in {None} \cup {Some(i) : i \in {j \in DOMAIN recon_runs : recon_runs[j].status = "COMPLETED"}} :
       LET target == IF given = None THEN LatestCompleted ELSE given
       IN dif' = [dif EXCEPT ![x] = IF target = None THEN [@ EXCEPT !.pc = "done"]
                                    ELSE [@ EXCEPT !.pc = "fetch", !.target_run_id = target]]
  /\ UNCHANGED <<calls, recon_runs, recon_records, ing, differ, reason_codes, data_differences, attributions, audit_trail, req, eng>>

\* SELECT ... WHERE run_id = :rid ORDER BY record_id LIMIT :limit OFFSET
\* :offset, as record ids
FetchBatch(rid, limit, offset) ==
  LET ids == SelectSeq([i \in DOMAIN recon_records |-> i], LAMBDA i : recon_records[i].run_id = rid)
  IN SubSeq(ids, offset + 1, Min(offset + limit, Len(ids)))

\* 2. Fetch Records: the next batch; break out of the loop when it is empty
DiffFetch(x) ==
  /\ dif[x].pc = "fetch"
  /\ LET records == FetchBatch(The(dif[x].target_run_id), dif[x].batch_size, dif[x].offset)
     IN dif' = [dif EXCEPT ![x].pc = IF records = <<>> THEN "stats" ELSE "process",
                           ![x].records = records]
  /\ UNCHANGED <<calls, recon_runs, recon_records, ing, differ, reason_codes, data_differences, attributions, audit_trail, req, eng>>

\* "HIGH" if "MISSING" in d["diff_type"] else "MEDIUM"
Severity(diff_type) ==
  IF diff_type \in {"MISSING_IN_SOURCE_A", "MISSING_IN_SOURCE_B"} THEN "HIGH" ELSE "MEDIUM"

\* found_diffs = process_record(rec) of the records the ingestion stores,
\* computed once; a stored record has at most one field, so its key set has
\* one iteration order
FoundDiffs ==
  [rec \in {IngestedRecord(1, i) : i \in 0..3} |->
     process_record(rec, CHOOSE o \in Orders(AllKeys(rec)) : TRUE)] @@ <<>>

\* the diff_inserts entries of one record
InsertsOf(record_id) ==
  LET found_diffs == FoundDiffs[recon_records[record_id]]
  IN [k \in DOMAIN found_diffs |->
        [record_id |-> record_id, field_name |-> found_diffs[k].field_name,
         value_a |-> found_diffs[k].value_a, value_b |-> found_diffs[k].value_b,
         diff_type |-> found_diffs[k].diff_type, severity |-> Severity(found_diffs[k].diff_type)]]

RECURSIVE DiffInserts(_, _, _)
\* 3. Process Batch: diff_inserts for records[lo..hi], in record order
DiffInserts(records, lo, hi) ==
  IF lo > hi THEN <<>>
  ELSE IF lo = hi THEN InsertsOf(records[lo])
  ELSE DiffInserts(records, lo, (lo + hi) \div 2) \o DiffInserts(records, (lo + hi) \div 2 + 1, hi)

\* variant: the offset moves on by one more than the batch holds
DiffInsertSkips(x) ==
  /\ dif[x].pc = "process"
  /\ LET diff_inserts == DiffInserts(dif[x].records, 1, Len(dif[x].records))
     IN /\ data_differences' = data_differences \o diff_inserts
        /\ dif' = [dif EXCEPT ![x].pc = "fetch", ![x].records = <<>>,
                              ![x].total_diffs_found = @ + Len(diff_inserts),
                              ![x].offset = @ + dif[x].batch_size + 1]
  /\ UNCHANGED <<calls, recon_runs, recon_records, ing, differ, reason_codes, attributions, audit_trail, req, eng>>

\* 3 and 4: process the batch, INSERT the differences and commit when there
\* are any, move the offset on
DiffInsert(x) ==
  /\ dif[x].pc = "process"
  /\ LET diff_inserts == DiffInserts(dif[x].records, 1, Len(dif[x].records))
     IN /\ data_differences' = data_differences \o diff_inserts
        /\ dif' = [dif EXCEPT ![x].pc = "fetch", ![x].records = <<>>,
                              ![x].total_diffs_found = @ + Len(diff_inserts),
                              ![x].offset = @ + dif[x].batch_size]
  /\ UNCHANGED <<calls, recon_runs, recon_records, ing, differ, reason_codes, attributions, audit_trail, req, eng>>

\* 5. Update Run Statistics: UPDATE ... SET total_differences; commit
DiffStats(x) ==
  /\ dif[x].pc = "stats"
  /\ recon_runs' = [recon_runs EXCEPT ![The(dif[x].target_run_id)].total_differences = dif[x].total_diffs_found]
  /\ dif' = [dif EXCEPT ![x].pc = "done"]
  /\ UNCHANGED <<calls, recon_records, ing, differ, reason_codes, data_differences, attributions, audit_trail, req, eng>>

\* except Exception: session.rollback(); raise - the batch in hand is lost,
\* the committed batches stay, recon_runs is not touched
DiffFail(x) ==
  /\ dif[x].pc \in {"fetch", "process", "stats"}
  /\ dif' = [dif EXCEPT ![x].pc = "failed", ![x].records = <<>>]
  /\ UNCHANGED <<calls, recon_runs, recon_records, ing, differ, reason_codes, data_differences, attributions, audit_trail, req, eng>>

NextBatch ==
  \/ IngestStart
  \/ IngestComplete
  \/ IngestFail
  \/ \E x \in Executions : DiffStart(x)
  \/ \E x \in Executions : DiffFetch(x)
  \/ \E x \in Executions : DiffInsert(x)
  \/ \E x \in Executions : DiffStats(x)
  \/ \E x \in Executions : DiffFail(x)

SpecBatch == InitBatch /\ [][NextBatch]_vars

\* the identity of a Difference: its record, field and difference type
DifferenceKey(d) == <<d.record_id, d.field_name, d.diff_type>>

\* C13: difference insertion is idempotent under re-execution: after any
\* number of executions of run_difference_engine (a retry after a failure, a
\* second complete execution) at most one Difference exists for every record,
\* field and difference type.
C13_InsertionIdempotent ==
  Cardinality({DifferenceKey(data_differences[i]) : i \in DOMAIN data_differences}) = Len(data_differences)

\* C14: when a batch execution fails part-way (in the ingestion, or in a
\* batch of the difference engine) the status of its run becomes FAILED, and
\* the failing step leaves everything committed before it in place.
C14_FailedRunMarkedFailed ==
  /\ [](/\ ing.pc = "failed" => recon_runs[The(ing.run_id)].status = "FAILED"
        /\ \A x \in Executions :
             dif[x].pc = "failed" => recon_runs[The(dif[x].target_run_id)].status = "FAILED")
  /\ [][(\/ ing.pc # "failed" /\ ing'.pc = "failed"
         \/ \E x \in Executions : dif[x].pc # "failed" /\ dif'[x].pc = "failed") =>
          /\ data_differences' = data_differences
          /\ recon_records' = recon_records]_vars

(***************************************************************************)
(* One execution of run_difference_engine over a run whose records are in  *)
(* place, for every BATCH_SIZE from one record to more than the run holds  *)
(***************************************************************************)
\* records of the run
NumChunked == 4

InitChunks ==
  /\ reason_codes = FullLookup
  /\ data_differences = <<>>
  /\ attributions = <<>>
  /\ audit_trail = <<>>
  /\ req = [r \in Requests |-> IdleRequest]
  /\ eng = [e \in Engines |-> IdleEngine]
  /\ recon_runs = <<[status |-> "COMPLETED", total_differences |-> 0]>>
  /\ recon_records \in {[i \in 1..NumChunked |-> IngestedRecord(1, kind[i])] :
                           kind \in [1..NumChunked -> 0..3]}
  /\ ing = [pc |-> "done", run_id |-> Some(1)]
  /\ dif \in {[x \in {1} |-> [IdleExecution EXCEPT !.batch_size = size]] : size \in 1..(NumChunked + 1)}
  /\ NoDiffer
  /\ NoCalls

\* the statements of the execution that are not a storage error
RunsOn == DiffStart(1) \/ DiffFetch(1) \/ DiffInsert(1) \/ DiffStats(1)

NextChunks == RunsOn \/ DiffFail(1)

\* the execution is one sequential process: it goes on while it has a
\* statement to run
SpecChunks == InitChunks /\ [][NextChunks]_vars /\ WF_vars(RunsOn)

\* what the execution inserts with all records of the run in one chunk
OneChunk == DiffInserts([i \in DOMAIN recon_records |-> i], 1, Len(recon_records))

\* C28: chunk boundaries do not affect the result: a complete execution of
\* run_difference_engine over a run with a fixed finite set of Records
\* terminates, applies process_record to every Record of the run exactly
\* once, and inserts the same Differences (record, field, values, type,
\* severity) for every chunk size as it would with all Records in one chunk.
C28_ChunkBoundariesDoNotMatter ==
  /\ <>(dif[1].pc \in {"done", "failed"})
  /\ [][dif'[1].offset # dif[1].offset =>
          /\ dif[1].records = [k \in 1..(Min(dif'[1].offset, Len(recon_records)) - dif[1].offset) |->
                                 dif[1].offset + k]
          /\ dif[1].records # <<>>]_vars
  /\ [](dif[1].pc = "done" =>
          /\ dif[1].offset >= Len(recon_records)
          /\ data_differences = OneChunk
          /\ recon_runs[1].total_differences = Len(OneChunk))

\* an execution with a chunk size that does not divide the number of records
\* completed after several chunks and stored differences
C28_Witness ==
  /\ dif[1].pc = "done"
  /\ dif[1].batch_size > 1
  /\ dif[1].batch_size < Len(recon_records)
  /\ Len(recon_records) % dif[1].batch_size # 0
  /\ Len(data_differences) > 1

====
